---- MODULE Spec2Model ----
(***************************************************************************)
(* A model of fathom's clustering core (src/clusters.js): the structural   *)
(* distance between two DOM nodes, the stride counter it uses, the         *)
(* lower-triangular DistanceMatrix and the agglomerative clusters() loop.  *)
(*                                                                         *)
(* The DOM tree is the input.  Its nodes are numbered 1..n in document     *)
(* order (preorder), parentNode[i] is the number of i's parent (NULL for   *)
(* the root) and kind[i] is the tag of an element or "#text" for a         *)
(* whitespace-only text node.                                              *)
(***************************************************************************)
EXTENDS Integers, Sequences, FiniteSets, TLC

VARIABLES
    parentNode,   \* the tree: node -> parent (NULL for the root)
    kind,         \* the tree: node -> "P" | "SPAN" | "#text"
    pc,           \* where the running call stands
    elementA,     \* distance(): first argument
    elementB,     \* distance(): second argument
    dist,         \* distance(): outcome of the call
    elements,     \* clusters(): the input nodes
    tooFar,       \* clusters(): the threshold
    arena,        \* the cluster arrays ever created, by identity
    matrix,       \* DistanceMatrix._matrix (insertion-ordered Map of Maps)
    numClusters,  \* DistanceMatrix._numClusters
    closest,      \* clusters(): the local variable `closest`
    result,       \* clusters(): the returned array of arrays
    metricCalls,  \* how many times the constructor has called distance()
    rhs,          \* the InwardRhs at hand: _calls, _max, _types
    fact,         \* InwardRhs.fact(): outcome of the call
    ran,          \* InwardRhs.fact(): the places in _calls of the calls it ran
    heap,         \* the InwardRhs objects and the arrays made so far, by identity
    strides       \* numStrides(): outcome of the call

vars == <<parentNode, kind, pc, elementA, elementB, dist, elements, tooFar,
          arena, matrix, numClusters, closest, result, metricCalls,
          rhs, fact, ran, heap, strides>>

-----------------------------------------------------------------------------
(* Bounds of the model *)

\* Largest tree explored by the distance() specification.
MaxNodes == 5
\* Largest tree explored by the clusters() specification.
MaxClusterNodes == 4
\* Longest input sequence given to clusters().
MaxElements == 3
\* Largest finite threshold given to clusters().
MaxTooFar == 4
\* Largest set of trees explored by the distance() specification.
MaxForestNodes == 4
\* Longest input given to a DistanceMatrix used on its own.
MaxMatrixElements == 4
\* Longest chain of calls held by an InwardRhs.
MaxCalls == 3
\* Most InwardRhs objects made from one another.
MaxRhsObjects == 4

-----------------------------------------------------------------------------
(* JavaScript values *)

NULL == 0
UNDEFINED == 0 - 1

Truthy(v) == v # NULL /\ v # UNDEFINED

Last(s) == s[Len(s)]

MinOf(S) == CHOOSE x \in S : \A y \in S : x <= y
MaxOf(S) == CHOOSE x \in S : \A y \in S : x >= y

-----------------------------------------------------------------------------
(* The DOM tree (the TreeNavigator of the specification) *)

Tags == {"P", "SPAN"}
TEXT == "#text"

Nodes == DOMAIN parentNode

\* a.contains(b): reflexive containment, walking b's parent links.
RECURSIVE contains(_, _)
contains(a, b) ==
    IF b = NULL THEN FALSE
    ELSE IF a = b THEN TRUE
    ELSE contains(a, parentNode[b])

nextSibling(n) ==
    LET later == {m \in Nodes : m > n /\ parentNode[m] = parentNode[n]}
    IN  IF parentNode[n] = NULL \/ later = {} THEN NULL ELSE MinOf(later)

previousSibling(n) ==
    LET earlier == {m \in Nodes : m < n /\ parentNode[m] = parentNode[n]}
    IN  IF parentNode[n] = NULL \/ earlier = {} THEN NULL ELSE MaxOf(earlier)

\* node.tagName: text nodes have none.
tagName(n) == IF kind[n] = TEXT THEN "undefined" ELSE kind[n]

\* utils.isWhitespace(node): a text node holding only whitespace.
isWhitespace(n) == kind[n] = TEXT

\* a.compareDocumentPosition(b), as the set of bits that are set.
compareDocumentPosition(a, b) ==
    IF a = b THEN {}
    ELSE IF b > a
         THEN {"FOLLOWING"} \cup (IF contains(a, b) THEN {"CONTAINED_BY"} ELSE {})
         ELSE {"PRECEDING"} \cup (IF contains(b, a) THEN {"CONTAINS"} ELSE {})

\* The trees of n nodes in document order: each node after the first hangs
\* under the previous node or under one of its ancestors.
RECURSIVE ContainsIn(_, _, _)
ContainsIn(p, a, b) ==
    IF b = NULL THEN FALSE
    ELSE IF a = b THEN TRUE
    ELSE ContainsIn(p, a, p[b])

IsDocumentOrder(p) ==
    /\ p[1] = NULL
    /\ \A i \in 2..Len(p) : p[i] # NULL /\ ContainsIn(p, p[i], i - 1)

TreeShapes(n) == {p \in [1..n -> 0..(n - 1)] : IsDocumentOrder(p)}

\* Elements carry a tag; only a leaf below the root may be a text node.
IsLabelling(p, k) ==
    \A i \in 1..Len(p) :
        k[i] = TEXT => (i # 1 /\ \A j \in 1..Len(p) : p[j] # i)

Labellings(p) == {k \in [1..Len(p) -> Tags \cup {TEXT}] : IsLabelling(p, k)}

-----------------------------------------------------------------------------
(* numStrides (src/clusters.js 13-37) *)

\* The loop of lines 19-25, entered with shouldContinue true.
RECURSIVE walkRight(_, _, _)
walkRight(sibling, right, num) ==
    LET next == nextSibling(sibling)
        shouldContinue == next # NULL /\ next # right
    IN  IF shouldContinue
        THEN walkRight(next, right, IF ~isWhitespace(next) THEN num + 1 ELSE num)
        ELSE [sibling |-> next, num |-> num]

\* The loop of lines 29-34.
RECURSIVE walkLeft(_, _)
walkLeft(sibling, num) ==
    IF ~Truthy(sibling) THEN num
    ELSE LET prev == previousSibling(sibling)
         IN  walkLeft(prev, IF prev # NULL /\ ~isWhitespace(prev) THEN num + 1 ELSE num)

\* Lines 17-25: the walk to the right of left; sibling is where it stops.
forwardWalk(left, right) ==
    IF Truthy(left) /\ left # right
    THEN walkRight(left, right, 0)
    ELSE [sibling |-> left, num |-> 0]

\* The test of line 26 always true.
backwardWalkAlways(sibling, right) == TRUE

\* Line 26: if (sibling !== right), sibling being where the forward walk
\* stopped.
backwardWalkRuns(sibling, right) == sibling # right

numStrides(left, right) ==
    LET forward == forwardWalk(left, right)
    IN  IF backwardWalkRuns(forward.sibling, right)
        THEN walkLeft(right, forward.num)
        ELSE forward.num

-----------------------------------------------------------------------------
(* distance (src/clusters.js 45-125) *)

DIFFERENT_DEPTH_COST == 2
DIFFERENT_TAG_COST == 2
SAME_TAG_COST == 1
STRIDE_COST == 1

Returned(n) == [threw |-> FALSE, cost |-> n]
\* A TypeError raised by reading a property of null.
TypeError == [threw |-> TRUE, cost |-> 0]

\* Lines 70-73: climb from A to the first ancestor that contains B.
RECURSIVE ascendA(_, _)
ascendA(aAncestors, b) ==
    LET aAncestor == Last(aAncestors)
    IN  IF aAncestor = NULL THEN aAncestors
        ELSE IF contains(aAncestor, b) THEN aAncestors
        ELSE ascendA(Append(aAncestors, parentNode[aAncestor]), b)

\* Lines 77-80: the do-while climbs from B's parent until it meets aAncestor.
RECURSIVE ascendB(_, _)
ascendB(bAncestors, aAncestor) ==
    LET bAncestor == Last(bAncestors)
    IN  IF bAncestor = NULL THEN bAncestors
        ELSE LET up == Append(bAncestors, parentNode[bAncestor])
             IN  IF parentNode[bAncestor] = aAncestor THEN up
                 ELSE ascendB(up, aAncestor)

pop(stack) == IF stack = <<>> THEN UNDEFINED ELSE Last(stack)
popped(stack) == IF stack = <<>> THEN <<>> ELSE SubSeq(stack, 1, Len(stack) - 1)

\* Line 116 and line 113: the cost of one level of the descent.
levelCost(l, r) ==
    IF l = UNDEFINED \/ r = UNDEFINED THEN DIFFERENT_DEPTH_COST
    ELSE IF tagName(l) = tagName(r) THEN SAME_TAG_COST
    ELSE DIFFERENT_TAG_COST

\* Lines 107-122: pop both stacks in parallel, summing the costs.
RECURSIVE descend(_, _, _)
descend(left, right, mightStride) ==
    IF left = <<>> /\ right = <<>> THEN 0
    ELSE LET l == pop(left)
             r == pop(right)
         IN  levelCost(l, r)
             + (IF mightStride THEN numStrides(l, r) * STRIDE_COST ELSE 0)
             + descend(popped(left), popped(right), mightStride)

\* Lines 89-102: mightStride, from the document-order comparison.
mightStrideOf(comparison) ==
    IF "FOLLOWING" \in comparison THEN "CONTAINED_BY" \notin comparison
    ELSE IF "PRECEDING" \in comparison THEN "CONTAINS" \notin comparison
    ELSE FALSE

\* distanceOfDistinct with a guard that takes two nodes without a common
\* ancestor to be as far apart as A is deep.
distanceOfDistinctOrFar(a, b) ==
    LET aAncestors == ascendA(<<a>>, b)
    IN  IF Last(aAncestors) = NULL THEN Returned(DIFFERENT_DEPTH_COST * Len(aAncestors))
        ELSE LET bAncestors == ascendB(<<b>>, Last(aAncestors))
             IN  IF Last(bAncestors) = NULL THEN TypeError
                 ELSE LET comparison == compareDocumentPosition(a, b)
                          aIsLeft == "PRECEDING" \notin comparison
                          left == IF aIsLeft THEN aAncestors ELSE bAncestors
                          right == IF aIsLeft THEN bAncestors ELSE aAncestors
                      IN  Returned(descend(left, right, mightStrideOf(comparison)))

\* Lines 62-124: the computation for two nodes that are not identical.
distanceOfDistinct(a, b) ==
    LET aAncestors == ascendA(<<a>>, b)
    IN  IF Last(aAncestors) = NULL THEN TypeError
        ELSE LET bAncestors == ascendB(<<b>>, Last(aAncestors))
             IN  IF Last(bAncestors) = NULL THEN TypeError
                 ELSE LET comparison == compareDocumentPosition(a, b)
                          aIsLeft == "PRECEDING" \notin comparison
                          left == IF aIsLeft THEN aAncestors ELSE bAncestors
                          right == IF aIsLeft THEN bAncestors ELSE aAncestors
                      IN  Returned(descend(left, right, mightStrideOf(comparison)))

\* distance with the early return of lines 58-60 left out.
distanceNoEarlyReturn(a, b) == distanceOfDistinct(a, b)

distance(a, b) ==
    IF a = b THEN Returned(0)
    ELSE distanceOfDistinct(a, b)

-----------------------------------------------------------------------------
(* Values of the variables a specification does not use *)

NoDist == Returned(0)
NoClosest == [a |-> 0, b |-> 0, distance |-> 0]
Infinity == [inf |-> TRUE, n |-> 0]
Finite(n) == [inf |-> FALSE, n |-> n]

NoRhs == [calls |-> <<>>, max |-> Infinity, types |-> {}]
NoFact == [threw |-> FALSE, subfacts |-> <<>>]
NoStrides == [num |-> 0, backward |-> FALSE]
NoHeap == [objects |-> <<>>, arrays |-> <<>>, receiver |-> 0, method |-> "none"]

\* d < t, for a stored distance d and a threshold t.
LessThan(d, t) == t.inf \/ d < t.n

-----------------------------------------------------------------------------
(* The specification of distance() as a pure function of the tree *)

InitTree(maxNodes) ==
    /\ parentNode \in UNION {TreeShapes(n) : n \in 1..maxNodes}
    /\ kind \in Labellings(parentNode)

InitDistance ==
    /\ InitTree(MaxNodes)
    /\ pc = "idle"
    /\ elementA = NULL
    /\ elementB = NULL
    /\ dist = NoDist
    /\ elements = <<>>
    /\ tooFar = Infinity
    /\ arena = <<>>
    /\ matrix = <<>>
    /\ numClusters = 0
    /\ closest = NoClosest
    /\ result = <<>>
    /\ metricCalls = 0
    /\ rhs = NoRhs
    /\ fact = NoFact
    /\ ran = {}
    /\ heap = NoHeap
    /\ strides = NoStrides

CallDistance(a, b) ==
    /\ pc = "idle"
    /\ elementA' = a
    /\ elementB' = b
    /\ dist' = distance(a, b)
    /\ pc' = IF dist'.threw THEN "threw" ELSE "returned"
    /\ UNCHANGED <<parentNode, kind, elements, tooFar, arena, matrix,
                   numClusters, closest, result, metricCalls, rhs, fact, ran, heap, strides>>

NextDistance == \E a \in Nodes, b \in Nodes : CallDistance(a, b)

SpecDistance == InitDistance /\ [][NextDistance]_vars

\* numStrides(left, right) on two nodes of the tree, or on one node and
\* undefined ("left xor right may also be undefined").
CallNumStrides(left, right) ==
    /\ pc = "idle"
    /\ elementA' = left
    /\ elementB' = right
    /\ strides' = [num |-> numStrides(left, right),
                   backward |-> backwardWalkRuns(forwardWalk(left, right).sibling, right)]
    /\ pc' = "strides"
    /\ UNCHANGED <<parentNode, kind, dist, elements, tooFar, arena, matrix,
                   numClusters, closest, result, metricCalls, rhs, fact, ran, heap>>

NextStrides ==
    \E left \in Nodes \cup {UNDEFINED}, right \in Nodes \cup {UNDEFINED} :
        /\ ~(left = UNDEFINED /\ right = UNDEFINED)
        /\ CallNumStrides(left, right)

SpecStrides == InitDistance /\ [][NextStrides]_vars

\* distance() called on nodes that need not be of one tree: the nodes are
\* those of several trees, one after the other, parentNode being NULL for the
\* root of each.
IsForestOrder(p) ==
    /\ p[1] = NULL
    /\ \A i \in 2..Len(p) : p[i] = NULL \/ ContainsIn(p, p[i], i - 1)

ForestShapes(n) == {p \in [1..n -> 0..(n - 1)] : IsForestOrder(p)}

InitForest ==
    /\ parentNode \in UNION {ForestShapes(n) : n \in 1..MaxForestNodes}
    /\ kind \in {k \in Labellings(parentNode) :
                    \A i \in 1..Len(parentNode) : parentNode[i] = NULL => k[i] # TEXT}
    /\ pc = "idle"
    /\ elementA = NULL
    /\ elementB = NULL
    /\ dist = NoDist
    /\ elements = <<>>
    /\ tooFar = Infinity
    /\ arena = <<>>
    /\ matrix = <<>>
    /\ numClusters = 0
    /\ closest = NoClosest
    /\ result = <<>>
    /\ metricCalls = 0
    /\ rhs = NoRhs
    /\ fact = NoFact
    /\ ran = {}
    /\ heap = NoHeap
    /\ strides = NoStrides

SpecForest == InitForest /\ [][NextDistance]_vars

-----------------------------------------------------------------------------
(* DistanceMatrix (src/clusters.js 131-256) *)

\* A cluster is an array, known by identity: its place in the arena.  A
\* singleton [el] holds a node, a merged cluster [A, B] holds two clusters.
Leaf(el) == [leaf |-> TRUE, el |-> el, a |-> 0, b |-> 0]
\* Merged as [clusterA, clusterA].
MergedTwiceA(clusterA, clusterB) == [leaf |-> FALSE, el |-> 0, a |-> clusterA, b |-> clusterA]

Merged(clusterA, clusterB) == [leaf |-> FALSE, el |-> 0, a |-> clusterA, b |-> clusterB]

\* Map.prototype.keys / get / delete on an insertion-ordered Map, held as a
\* sequence of [key, ...] records.
HasKey(map, key) == \E i \in 1..Len(map) : map[i].key = key
EntryOf(map, key) == map[CHOOSE i \in 1..Len(map) : map[i].key = key]
DeleteKey(map, key) == SelectSeq(map, LAMBDA e : e.key # key)

\* constructorDistances with the arguments of line 158 exchanged:
\* distance(innerCluster[0], outerCluster[0]).
constructorDistancesEarlierFirst(els) ==
    [i \in 1..Len(els) |-> [j \in 1..(i - 1) |-> distance(els[j], els[i])]]

\* Lines 155-160: the constructor calls distance(outerCluster[0],
\* innerCluster[0]) for every element and every element before it.
constructorDistances(els) ==
    [i \in 1..Len(els) |-> [j \in 1..(i - 1) |-> distance(els[i], els[j])]]

\* constructorMatrix with the outer cluster set in the matrix before the inner
\* loop runs: every row holds an entry for its own cluster too.
constructorMatrixWithSelf(d) ==
    [i \in 1..Len(d) |->
        [key |-> i,
         row |-> [j \in 1..i |->
                     [key |-> j, distance |-> IF j = i THEN 0 ELSE d[i][j].cost]]]]

\* Lines 152-163: the rows built by the constructor; row i holds the distance
\* from element i to every element before it.
constructorMatrix(d) ==
    [i \in 1..Len(d) |->
        [key |-> i,
         row |-> [j \in 1..(i - 1) |-> [key |-> j, distance |-> d[i][j].cost]]]]

\* The constructor ends in the TypeError of the first distance() that throws.
constructorThrows(d) ==
    \E i \in 1..Len(d) : \E j \in 1..(i - 1) : d[i][j].threw

\* Lines 155-158: the pairs <<outer, inner>> of places in the input, in the
\* order the two loops visit them; the inner loop runs over the clusters
\* already in the matrix, the outer cluster being set only on line 162.
RECURSIVE constructorPairs(_)
constructorPairs(n) ==
    IF n = 0 THEN <<>>
    ELSE constructorPairs(n - 1) \o [j \in 1..(n - 1) |-> <<n, j>>]

\* A constructor whose loops visit every ordered pair of distinct clusters.
constructorCallsBothWays(d) == 2 * Len(constructorPairs(Len(d)))

\* Line 158: how many times the constructor calls distance(); a call that
\* throws is its last.
constructorCalls(d) ==
    LET pairs == constructorPairs(Len(d))
        throwing == {k \in 1..Len(pairs) : d[pairs[k][1]][pairs[k][2]].threw}
    IN  IF throwing = {} THEN Len(pairs) ELSE MinOf(throwing)

\* clustersAndDistances with an inner loop that ends after its first entry.
RECURSIVE clustersAndDistancesFirstOfRow(_)
clustersAndDistancesFirstOfRow(m) ==
    IF m = <<>> THEN <<>>
    ELSE [j \in 1..(IF m[1].row = <<>> THEN 0 ELSE 1) |->
             [a |-> m[1].key, b |-> m[1].row[j].key, distance |-> m[1].row[j].distance]]
         \o clustersAndDistancesFirstOfRow(Tail(m))

\* Lines 176-182: every stored entry, rows in insertion order.
RECURSIVE clustersAndDistances(_)
clustersAndDistances(m) ==
    IF m = <<>> THEN <<>>
    ELSE [j \in 1..Len(m[1].row) |->
             [a |-> m[1].key, b |-> m[1].row[j].key, distance |-> m[1].row[j].distance]]
         \o clustersAndDistances(Tail(m))

\* utils.min(iterable, by): the first item with the least key, undefined when
\* there is no item.
min(items) ==
    IF items = <<>> THEN [a |-> UNDEFINED, b |-> UNDEFINED, distance |-> UNDEFINED]
    ELSE items[CHOOSE i \in 1..Len(items) :
                   \A j \in 1..Len(items) :
                       \/ items[i].distance < items[j].distance
                       \/ items[i].distance = items[j].distance /\ i <= j]

\* closestIn with the guard of line 170 as `_numClusters < 1`.
closestInNeedsOne(m, n) ==
    IF n < 1 THEN [threw |-> TRUE, value |-> [a |-> 0, b |-> 0, distance |-> 0]]
    ELSE [threw |-> FALSE, value |-> min(clustersAndDistances(m))]

\* Lines 168-184.
closestIn(m, n) ==
    IF n < 2 THEN [threw |-> TRUE, value |-> [a |-> 0, b |-> 0, distance |-> 0]]
    ELSE [threw |-> FALSE, value |-> min(clustersAndDistances(m))]

\* Lines 189-195: look the pair up, then the other way round.
cachedDistance(m, clusterA, clusterB) ==
    IF HasKey(EntryOf(m, clusterA).row, clusterB)
    THEN EntryOf(EntryOf(m, clusterA).row, clusterB).distance
    ELSE EntryOf(EntryOf(m, clusterB).row, clusterA).distance

\* Math.max in place of Math.min.
MathMax(x, y) == IF x >= y THEN x ELSE y

MathMin(x, y) == IF x <= y THEN x ELSE y

\* newRowOf that keeps the distance to clusterB alone.
newRowOfFromB(m, clusterA, clusterB) ==
    LET others == SelectSeq(m, LAMBDA e : e.key # clusterA /\ e.key # clusterB)
    IN  [i \in 1..Len(others) |->
            [key |-> others[i].key,
             distance |-> cachedDistance(m, clusterB, others[i].key)]]

\* Lines 222-228: the row of the merged cluster.
newRowOf(m, clusterA, clusterB) ==
    LET others == SelectSeq(m, LAMBDA e : e.key # clusterA /\ e.key # clusterB)
    IN  [i \in 1..Len(others) |->
            [key |-> others[i].key,
             distance |-> MathMin(cachedDistance(m, clusterA, others[i].key),
                                  cachedDistance(m, clusterB, others[i].key))]]

\* mergedMatrix without line 238: the other rows keep their distance to
\* clusterB.
mergedMatrixKeepsInnerB(m, clusterA, clusterB, newCluster) ==
    LET kept == DeleteKey(DeleteKey(m, clusterA), clusterB)
        cleaned == [i \in 1..Len(kept) |->
                       [key |-> kept[i].key, row |-> DeleteKey(kept[i].row, clusterA)]]
    IN  Append(cleaned, [key |-> newCluster, row |-> newRowOf(m, clusterA, clusterB)])

\* mergedMatrix with the new cluster set ahead of the remaining rows.
mergedMatrixNewFirst(m, clusterA, clusterB, newCluster) ==
    LET kept == DeleteKey(DeleteKey(m, clusterA), clusterB)
        cleaned == [i \in 1..Len(kept) |->
                       [key |-> kept[i].key,
                        row |-> DeleteKey(DeleteKey(kept[i].row, clusterA), clusterB)]]
    IN  <<[key |-> newCluster, row |-> newRowOf(m, clusterA, clusterB)]>> \o cleaned

\* Lines 230-241: the matrix after merge(clusterA, clusterB); newCluster is the
\* array [clusterA, clusterB] made on line 241.
mergedMatrix(m, clusterA, clusterB, newCluster) ==
    LET kept == DeleteKey(DeleteKey(m, clusterA), clusterB)
        cleaned == [i \in 1..Len(kept) |->
                       [key |-> kept[i].key,
                        row |-> DeleteKey(DeleteKey(kept[i].row, clusterA), clusterB)]]
    IN  Append(cleaned, [key |-> newCluster, row |-> newRowOf(m, clusterA, clusterB)])

\* Line 244 left out.
noFewer(n) == n

\* Line 244: this._numClusters -= 1.
oneFewer(n) == n - 1

\* wu.flatten(false, cluster): the nodes of a cluster, depth first.
RECURSIVE flatten(_, _)
flatten(ar, cluster) ==
    IF ar[cluster].leaf THEN <<ar[cluster].el>>
    ELSE flatten(ar, ar[cluster].a) \o flatten(ar, ar[cluster].b)

\* Lines 252-255.
clustersOf(m, ar) == [i \in 1..Len(m) |-> flatten(ar, m[i].key)]

-----------------------------------------------------------------------------
(* clusters (src/clusters.js 272-281) *)

Thresholds == {Finite(n) : n \in 0..MaxTooFar} \cup {Infinity}

\* The duplicate-free sequences of at most maxLen nodes.
ElementSeqs(maxLen) ==
    {s \in UNION {[1..k -> Nodes] : k \in 0..maxLen} :
        \A i \in 1..Len(s) : \A j \in 1..Len(s) : s[i] = s[j] => i = j}

InitCall ==
    /\ pc = "start"
    /\ elementA = NULL
    /\ elementB = NULL
    /\ dist = NoDist
    /\ elements = <<>>
    /\ tooFar = Infinity
    /\ arena = <<>>
    /\ matrix = <<>>
    /\ numClusters = 0
    /\ closest = NoClosest
    /\ result = <<>>
    /\ metricCalls = 0
    /\ rhs = NoRhs
    /\ fact = NoFact
    /\ ran = {}
    /\ heap = NoHeap
    /\ strides = NoStrides

Init ==
    /\ InitTree(MaxClusterNodes)
    /\ InitCall

\* The call clusters(els, t) for some els of inputs, up to the end of line 273:
\* new DistanceMatrix(elements).
Construct(inputs, thresholds) ==
    /\ pc = "start"
    /\ \E els \in inputs :
         LET d == constructorDistances(els)
         IN  /\ elements' = els
             /\ metricCalls' = constructorCalls(d)
             /\ IF constructorThrows(d)
                THEN /\ pc' = "threw"
                     /\ UNCHANGED <<arena, matrix, numClusters, strides>>
                ELSE /\ pc' = "loop"
                     /\ arena' = [i \in 1..Len(els) |-> Leaf(els[i])]
                     /\ matrix' = constructorMatrix(d)
                     /\ numClusters' = Len(els)
    /\ tooFar' \in thresholds
    /\ UNCHANGED <<parentNode, kind, elementA, elementB, dist, closest, result,
                   rhs, fact, ran, heap, strides>>

\* whileCondition with <= in place of <.
whileConditionAtMost(c, t) == t.inf \/ c.distance <= t.n

\* Line 276, second operand: (closest = matrix.closest()).distance < tooFar.
whileCondition(c, t) == LessThan(c.distance, t)

\* moreThanOne with >= in place of >.
atLeastOne(n) == n >= 1

\* Line 276, first operand: matrix.numClusters() > 1.
moreThanOne(n) == n > 1

\* Line 276: the test of the while loop.
WhileTest ==
    /\ pc = "loop"
    /\ IF moreThanOne(numClusters)
       THEN LET c == closestIn(matrix, numClusters)
            IN  IF c.threw
                THEN pc' = "threw" /\ UNCHANGED closest
                ELSE /\ closest' = c.value
                     /\ pc' = IF whileCondition(c.value, tooFar) THEN "merge" ELSE "return"
       ELSE pc' = "return" /\ UNCHANGED closest
    /\ UNCHANGED <<parentNode, kind, elementA, elementB, dist, elements, tooFar,
                   arena, matrix, numClusters, result, metricCalls, rhs, fact, ran, heap, strides>>

\* Line 277: matrix.merge(closest.a, closest.b).
Merge ==
    /\ pc = "merge"
    /\ arena' = Append(arena, Merged(closest.a, closest.b))
    /\ matrix' = mergedMatrix(matrix, closest.a, closest.b, Len(arena) + 1)
    /\ numClusters' = oneFewer(numClusters)
    /\ pc' = "loop"
    /\ UNCHANGED <<parentNode, kind, elementA, elementB, dist, elements, tooFar,
                   closest, result, metricCalls, rhs, fact, ran, heap, strides>>

\* Line 280: return matrix.clusters().
Return ==
    /\ pc = "return"
    /\ result' = clustersOf(matrix, arena)
    /\ pc' = "done"
    /\ UNCHANGED <<parentNode, kind, elementA, elementB, dist, elements, tooFar,
                   arena, matrix, numClusters, closest, metricCalls, rhs, fact, ran, heap, strides>>

Next == Construct(ElementSeqs(MaxElements), Thresholds) \/ WhileTest \/ Merge \/ Return

Spec == Init /\ [][Next]_vars

-----------------------------------------------------------------------------
(* The end-to-end scenario: three sibling paragraphs that are the only       *)
(* children of their parent, and a span under another parent, before or      *)
(* after them, directly under the root or in a container of its own.         *)

ScenarioShapes ==
    { <<0, 1, 2, 2, 2, 1>>,
      <<0, 1, 2, 2, 2, 1, 6>>,
      <<0, 1, 1, 3, 3, 3>>,
      <<0, 1, 2, 1, 4, 4, 4>> }

IsLeafIn(p, i) == \A j \in 1..Len(p) : p[j] # i

\* The paragraphs are the leaves that have siblings which are leaves too.
IsParagraphIn(p, i) ==
    /\ IsLeafIn(p, i)
    /\ \E j \in 1..Len(p) : j # i /\ p[j] = p[i] /\ IsLeafIn(p, j)

ScenarioKinds(p) ==
    {k \in [1..Len(p) -> Tags] :
        \A i \in 1..Len(p) :
            IsLeafIn(p, i) => k[i] = (IF IsParagraphIn(p, i) THEN "P" ELSE "SPAN")}

Paragraphs == {i \in Nodes : IsParagraphIn(parentNode, i)}
SpanNode == CHOOSE i \in Nodes : IsLeafIn(parentNode, i) /\ ~IsParagraphIn(parentNode, i)

\* [p1, p2, p3, span]
ScenarioElements ==
    LET p1 == MinOf(Paragraphs)
        p3 == MaxOf(Paragraphs)
        p2 == CHOOSE i \in Paragraphs : i # p1 /\ i # p3
    IN  <<p1, p2, p3, SpanNode>>

InitScenario ==
    /\ parentNode \in ScenarioShapes
    /\ kind \in ScenarioKinds(parentNode)
    /\ InitCall

NextScenario == Construct({ScenarioElements}, Thresholds) \/ WhileTest \/ Merge \/ Return

SpecScenario == InitScenario /\ [][NextScenario]_vars

-----------------------------------------------------------------------------
(* The DistanceMatrix as an object of its own: after new DistanceMatrix(els) *)
(* its methods are called in any order, pc naming the last call; closest     *)
(* and result hold what the last call returned, if it was closest() or       *)
(* clusters().                                                               *)

MatrixLive == pc \in {"loop", "merged", "closestReturned", "closestThrew", "clustersReturned"}

\* Lines 198-245: matrix.merge(clusterA, clusterB) for two live clusters.
MergeCall(clusterA, clusterB) ==
    /\ MatrixLive
    /\ HasKey(matrix, clusterA)
    /\ HasKey(matrix, clusterB)
    /\ clusterA # clusterB
    /\ arena' = Append(arena, Merged(clusterA, clusterB))
    /\ matrix' = mergedMatrix(matrix, clusterA, clusterB, Len(arena) + 1)
    /\ numClusters' = oneFewer(numClusters)
    /\ pc' = "merged"
    /\ closest' = NoClosest
    /\ result' = <<>>
    /\ UNCHANGED <<parentNode, kind, elementA, elementB, dist, elements, tooFar,
                   metricCalls, rhs, fact, ran, heap, strides>>

\* Lines 168-184: matrix.closest().
ClosestCall ==
    /\ MatrixLive
    /\ LET c == closestIn(matrix, numClusters)
       IN  IF c.threw
           THEN pc' = "closestThrew" /\ closest' = NoClosest
           ELSE pc' = "closestReturned" /\ closest' = c.value
    /\ result' = <<>>
    /\ UNCHANGED <<parentNode, kind, elementA, elementB, dist, elements, tooFar,
                   arena, matrix, numClusters, metricCalls, rhs, fact, ran, heap, strides>>

\* Lines 252-255: matrix.clusters().
ClustersCall ==
    /\ MatrixLive
    /\ result' = clustersOf(matrix, arena)
    /\ pc' = "clustersReturned"
    /\ closest' = NoClosest
    /\ UNCHANGED <<parentNode, kind, elementA, elementB, dist, elements, tooFar,
                   arena, matrix, numClusters, metricCalls, rhs, fact, ran, heap, strides>>

\* The inputs that list their nodes in document order or against it.
OrderedElementSeqs(maxLen) ==
    {s \in ElementSeqs(maxLen) :
        \/ \A i \in 1..(Len(s) - 1) : s[i] < s[i + 1]
        \/ \A i \in 1..(Len(s) - 1) : s[i] > s[i + 1]}

\* The trees are the two smallest of the scenario, their containers being
\* paragraphs.
InitMatrix ==
    /\ InitScenario
    /\ Len(parentNode) = 6
    /\ \A i \in 1..Len(parentNode) : ~IsLeafIn(parentNode, i) => kind[i] = "P"

NextMatrix ==
    \/ Construct(OrderedElementSeqs(MaxMatrixElements), {Infinity})
    \/ \E clusterA \in 1..Len(arena), clusterB \in 1..Len(arena) : MergeCall(clusterA, clusterB)
    \/ ClosestCall
    \/ ClustersCall

SpecMatrix == InitMatrix /\ [][NextMatrix]_vars

\* The runs of clusters() on the trees of InitMatrix.  clusters() is
\* synchronous code that nothing suspends: once the matrix is built, a run
\* that can take a step of the loop, or return, takes it.
SpecFair == InitMatrix /\ [][Next]_vars /\ WF_vars(WhileTest \/ Merge \/ Return)

-----------------------------------------------------------------------------
(* InwardRhs (src/unnamed/part_000 35-275): the right-hand side of a rule, a  *)
(* chain of props/type/note/score/conserveScore calls, and fact(), which      *)
(* runs the chain on one fnode.  A bit mask of subfacts is the set of the     *)
(* subfacts whose bit is set.  A call is what the builder method attaches to  *)
(* getSubfacts (kind, possibleSubfacts) and what its callback returns for the *)
(* fnode at hand (raw).                                                       *)

TYPE == {"type"}
NOTE == {"note"}
SCORE == {"score"}
ELEMENT == {"element"}
CONSERVE_SCORE == {"conserveScore"}

\* Lines 11-17.
SUBFACTS ==
    [subfact \in {"type", "note", "score", "element", "conserveScore"} |-> {subfact}]

\* An object whose every key of keys holds value.
ObjectOf(keys, value) == [key \in keys |-> value]

\* Lines 61-73: getSubfacts of props(), the callback's result filtered down
\* to the okayed properties.
propsGetSubfacts(call) ==
    [subfact \in {key \in DOMAIN call.raw :
                      /\ key \in DOMAIN SUBFACTS
                      /\ SUBFACTS[key] \cap call.possibleSubfacts # {}} |->
        call.raw[subfact]]

\* call(fnode), line 231.
getSubfacts(call) ==
    IF call.kind = "props" THEN propsGetSubfacts(call) ELSE call.raw

\* Line 228 with no kind ever done.
doneKindsHasNothing(doneKinds, callKind) == FALSE

\* Line 228: doneKinds.has(call.kind).
doneKindsHas(doneKinds, callKind) == callKind \in doneKinds

\* Lines 227-246: the loop over reversed(this._calls), from the call at place
\* i down to the first; ran is the set of the places of the calls run.
RECURSIVE factLoop(_, _, _)
factLoop(calls, i, acc) ==
    IF i = 0 THEN acc
    ELSE LET call == calls[i]
         IN  IF doneKindsHas(acc.doneKinds, call.kind) THEN factLoop(calls, i - 1, acc)
             ELSE IF call.possibleSubfacts \ acc.haveSubfacts = {}
                  THEN factLoop(calls, i - 1,
                                [acc EXCEPT !.doneKinds = @ \cup {call.kind}])
                  ELSE LET newSubfacts == getSubfacts(call)
                       IN  factLoop(calls, i - 1,
                               [doneKinds |-> acc.doneKinds \cup {call.kind},
                                result |->
                                    [subfact \in DOMAIN acc.result \cup DOMAIN newSubfacts |->
                                        IF subfact \in DOMAIN acc.result
                                        THEN acc.result[subfact]
                                        ELSE newSubfacts[subfact]],
                                haveSubfacts |->
                                    acc.haveSubfacts
                                    \cup UNION {SUBFACTS[subfact] : subfact \in DOMAIN newSubfacts},
                                ran |-> acc.ran \cup {i}])

\* Lines 50-54: does _checkScoreUpTo throw?
checkScoreUpToThrows(subfacts, max) ==
    /\ "score" \in DOMAIN subfacts
    /\ subfacts["score"] # UNDEFINED
    /\ ~max.inf
    /\ subfacts["score"] > max.n

\* Lines 128-138: does _checkTypeIn throw?
checkTypeInThrows(subfacts, types, leftType) ==
    /\ types # {}
    /\ IF "type" \notin DOMAIN subfacts \/ subfacts["type"] = UNDEFINED
       THEN leftType \notin types
       ELSE subfacts["type"] \notin types

\* Lines 223-250: fact(fnode, leftType) on the right-hand side r.
factOf(r, leftType) ==
    LET acc == factLoop(r.calls, Len(r.calls),
                        [doneKinds |-> {}, result |-> <<>>, haveSubfacts |-> {}, ran |-> {}])
        threw == \/ checkScoreUpToThrows(acc.result, r.max)
                 \/ checkTypeInThrows(acc.result, r.types, leftType)
    IN  [threw |-> threw,
         subfacts |-> IF threw THEN <<>> ELSE acc.result,
         ran |-> acc.ran]

\* The inputs: the i-th call of a chain is given i as the type, the score or
\* what its callback returns for each key, a note callback may return
\* undefined too, and a props callback returns any set of these keys.
PropsKeys == {"type", "note", "score", "conserveScore"}
AtMostInputs == {Infinity, Finite(1)}
TypeInInputs == {{}, {2}}
LeftTypes == {1, 2}

\* Lines 78-80 and the like: new this.constructor(this._calls.concat(
\* getSubfacts), this._max, this._types).
Extend(call) ==
    /\ pc = "building"
    /\ Len(rhs.calls) < MaxCalls
    /\ rhs' = [rhs EXCEPT !.calls = Append(@, call)]
    /\ UNCHANGED <<parentNode, kind, pc, elementA, elementB, dist, elements, tooFar,
                   arena, matrix, numClusters, closest, result, metricCalls, fact, ran, heap, strides>>

\* Lines 60-81.
Props ==
    \E keys \in SUBSET PropsKeys :
        Extend([kind |-> "props",
                possibleSubfacts |-> TYPE \cup NOTE \cup SCORE \cup ELEMENT,
                raw |-> ObjectOf(keys, Len(rhs.calls) + 1)])

\* Lines 90-101.
Type ==
    Extend([kind |-> "type", possibleSubfacts |-> TYPE,
            raw |-> ObjectOf({"type"}, Len(rhs.calls) + 1)])

\* Lines 148-157.
Note ==
    \E value \in {Len(rhs.calls) + 1, UNDEFINED} :
        Extend([kind |-> "note", possibleSubfacts |-> NOTE,
                raw |-> ObjectOf({"note"}, value)])

\* Lines 171-193.
Score ==
    Extend([kind |-> "score", possibleSubfacts |-> SCORE,
            raw |-> ObjectOf({"score"}, Len(rhs.calls) + 1)])

\* Lines 201-210; the value stands for true.
ConserveScore ==
    Extend([kind |-> "conserveScore", possibleSubfacts |-> CONSERVE_SCORE,
            raw |-> ObjectOf({"conserveScore"}, Len(rhs.calls) + 1)])

\* Lines 46-48.
AtMost ==
    /\ pc = "building"
    /\ \E score \in AtMostInputs : rhs' = [rhs EXCEPT !.max = score]
    /\ UNCHANGED <<parentNode, kind, pc, elementA, elementB, dist, elements, tooFar,
                   arena, matrix, numClusters, closest, result, metricCalls, fact, ran, heap, strides>>

\* Lines 118-122.
TypeIn ==
    /\ pc = "building"
    /\ \E types \in TypeInInputs : rhs' = [rhs EXCEPT !.types = types]
    /\ UNCHANGED <<parentNode, kind, pc, elementA, elementB, dist, elements, tooFar,
                   arena, matrix, numClusters, closest, result, metricCalls, fact, ran, heap, strides>>

\* Lines 223-250: a call of fact() on the right-hand side built so far.
Fact ==
    /\ pc = "building"
    /\ \E leftType \in LeftTypes :
         LET f == factOf(rhs, leftType)
         IN  /\ fact' = [threw |-> f.threw, subfacts |-> f.subfacts]
             /\ ran' = f.ran
             /\ pc' = IF f.threw THEN "factThrew" ELSE "factReturned"
    /\ UNCHANGED <<parentNode, kind, elementA, elementB, dist, elements, tooFar,
                   arena, matrix, numClusters, closest, result, metricCalls, rhs, heap, strides>>

\* The tree plays no part: it is the smallest one.
InitRhs ==
    /\ parentNode = <<NULL>>
    /\ kind = <<"P">>
    /\ pc = "building"
    /\ elementA = NULL
    /\ elementB = NULL
    /\ dist = NoDist
    /\ elements = <<>>
    /\ tooFar = Infinity
    /\ arena = <<>>
    /\ matrix = <<>>
    /\ numClusters = 0
    /\ closest = NoClosest
    /\ result = <<>>
    /\ metricCalls = 0
    /\ rhs = NoRhs
    /\ fact = NoFact
    /\ ran = {}
    /\ heap = NoHeap
    /\ strides = NoStrides

NextRhs ==
    \/ Props \/ Type \/ Note \/ Score \/ ConserveScore
    \/ AtMost \/ TypeIn
    \/ Fact

SpecRhs == InitRhs /\ [][NextRhs]_vars

-----------------------------------------------------------------------------
(* InwardRhs objects by identity (src/unnamed/part_000 36-210): every         *)
(* builder method makes a new object from its receiver.  heap.objects are the *)
(* objects made so far, _calls being the identity of an array, heap.arrays    *)
(* the contents of the arrays made so far; heap.receiver and heap.method name *)
(* the last call.                                                             *)

\* Array.prototype.slice(): a new array with the same items.
slice(arrays, id) == [arrays |-> Append(arrays, arrays[id]), id |-> Len(arrays) + 1]

\* Array.prototype.push() in place of concat(): the item is added to the
\* array itself.
concatInPlace(arrays, id, item) ==
    [arrays |-> [arrays EXCEPT ![id] = Append(@, item)], id |-> id]

\* Array.prototype.concat(item): a new array, the items followed by item.
concat(arrays, id, item) ==
    [arrays |-> Append(arrays, Append(arrays[id], item)), id |-> Len(arrays) + 1]

\* Lines 36-40: new this.constructor(calls, max, types), calls being the
\* identity of an array of arrays.
constructed(arrays, objects, calls, max, types) ==
    LET copy == slice(arrays, calls)
    IN  [objects |-> Append(objects, [calls |-> copy.id, max |-> max, types |-> types]),
         arrays |-> copy.arrays]

\* this._calls of an object, item by item.
callsOf(h, object) == h.arrays[h.objects[object].calls]

\* A builder method that passes this._calls.concat(getSubfacts), this._max
\* and this._types to the constructor.
Concatenating(receiver, method, call) ==
    /\ pc = "heap"
    /\ Len(heap.objects) < MaxRhsObjects
    /\ LET this == heap.objects[receiver]
           longer == concat(heap.arrays, this.calls, call)
           made == constructed(longer.arrays, heap.objects, longer.id, this.max, this.types)
       IN  heap' = [objects |-> made.objects, arrays |-> made.arrays,
                    receiver |-> receiver, method |-> method]
    /\ UNCHANGED <<parentNode, kind, pc, elementA, elementB, dist, elements, tooFar,
                   arena, matrix, numClusters, closest, result, metricCalls,
                   rhs, fact, ran, strides>>

\* Lines 36-40: new InwardRhs(), calls being a new empty array.
HeapNew ==
    /\ pc = "heap"
    /\ Len(heap.objects) < MaxRhsObjects
    /\ LET made == constructed(Append(heap.arrays, <<>>), heap.objects,
                               Len(heap.arrays) + 1, Infinity, {})
       IN  heap' = [objects |-> made.objects, arrays |-> made.arrays,
                    receiver |-> 0, method |-> "new"]
    /\ UNCHANGED <<parentNode, kind, pc, elementA, elementB, dist, elements, tooFar,
                   arena, matrix, numClusters, closest, result, metricCalls,
                   rhs, fact, ran, strides>>

\* Lines 46-48.
HeapAtMost(receiver) ==
    /\ pc = "heap"
    /\ Len(heap.objects) < MaxRhsObjects
    /\ \E score \in AtMostInputs :
         LET this == heap.objects[receiver]
             made == constructed(heap.arrays, heap.objects, this.calls, score, this.types)
         IN  heap' = [objects |-> made.objects, arrays |-> made.arrays,
                      receiver |-> receiver, method |-> "atMost"]
    /\ UNCHANGED <<parentNode, kind, pc, elementA, elementB, dist, elements, tooFar,
                   arena, matrix, numClusters, closest, result, metricCalls,
                   rhs, fact, ran, strides>>

\* Lines 118-122.
HeapTypeIn(receiver) ==
    /\ pc = "heap"
    /\ Len(heap.objects) < MaxRhsObjects
    /\ \E types \in TypeInInputs :
         LET this == heap.objects[receiver]
             made == constructed(heap.arrays, heap.objects, this.calls, this.max, types)
         IN  heap' = [objects |-> made.objects, arrays |-> made.arrays,
                      receiver |-> receiver, method |-> "typeIn"]
    /\ UNCHANGED <<parentNode, kind, pc, elementA, elementB, dist, elements, tooFar,
                   arena, matrix, numClusters, closest, result, metricCalls,
                   rhs, fact, ran, strides>>

\* Lines 60-81.
HeapProps(receiver) ==
    \E keys \in {{"type"}, {"note", "score"}} :
        Concatenating(receiver, "props",
            [kind |-> "props",
             possibleSubfacts |-> TYPE \cup NOTE \cup SCORE \cup ELEMENT,
             raw |-> ObjectOf(keys, Len(callsOf(heap, receiver)) + 1)])

\* Lines 90-101.
HeapType(receiver) ==
    Concatenating(receiver, "type",
        [kind |-> "type", possibleSubfacts |-> TYPE,
         raw |-> ObjectOf({"type"}, Len(callsOf(heap, receiver)) + 1)])

\* Lines 148-157.
HeapNote(receiver) ==
    Concatenating(receiver, "note",
        [kind |-> "note", possibleSubfacts |-> NOTE,
         raw |-> ObjectOf({"note"}, Len(callsOf(heap, receiver)) + 1)])

\* Lines 171-193.
HeapScore(receiver) ==
    Concatenating(receiver, "score",
        [kind |-> "score", possibleSubfacts |-> SCORE,
         raw |-> ObjectOf({"score"}, Len(callsOf(heap, receiver)) + 1)])

\* Lines 201-210.
HeapConserveScore(receiver) ==
    Concatenating(receiver, "conserveScore",
        [kind |-> "conserveScore", possibleSubfacts |-> CONSERVE_SCORE,
         raw |-> ObjectOf({"conserveScore"}, Len(callsOf(heap, receiver)) + 1)])

InitHeap ==
    /\ parentNode = <<NULL>>
    /\ kind = <<"P">>
    /\ pc = "heap"
    /\ elementA = NULL
    /\ elementB = NULL
    /\ dist = NoDist
    /\ elements = <<>>
    /\ tooFar = Infinity
    /\ arena = <<>>
    /\ matrix = <<>>
    /\ numClusters = 0
    /\ closest = NoClosest
    /\ result = <<>>
    /\ metricCalls = 0
    /\ rhs = NoRhs
    /\ fact = NoFact
    /\ ran = {}
    /\ heap = NoHeap
    /\ strides = NoStrides

NextHeap ==
    \/ HeapNew
    \/ \E receiver \in 1..Len(heap.objects) :
          \/ HeapAtMost(receiver)
          \/ HeapTypeIn(receiver)
          \/ HeapProps(receiver)
          \/ HeapType(receiver)
          \/ HeapNote(receiver)
          \/ HeapScore(receiver)
          \/ HeapConserveScore(receiver)

SpecHeap == InitHeap /\ [][NextHeap]_vars

-----------------------------------------------------------------------------
(* Properties of distance(), checked under SpecDistance *)

Called == pc \in {"returned", "threw"}

Siblings(a, b) == a # b /\ parentNode[a] # NULL /\ parentNode[a] = parentNode[b]

\* The non-skippable siblings strictly between two siblings.
NonSkippableBetween(a, b) ==
    {m \in Nodes : /\ parentNode[m] = parentNode[a]
                   /\ ((a < m /\ m < b) \/ (b < m /\ m < a))
                   /\ ~isWhitespace(m)}

IsAncestor(a, b) == a # b /\ contains(a, b)

\* C1: distance(a, b) and distance(b, a) have the same outcome
\* for every pair of nodes of the tree, an ancestor and its descendant
\* included.
C1_Symmetric ==
    Called => dist = distance(elementB, elementA)

\* C3: two distinct siblings with the same tag and no
\* non-skippable node between them are at distance exactly 1.
C3_SameTagSiblingsAtOne ==
    (/\ Called
     /\ Siblings(elementA, elementB)
     /\ tagName(elementA) = tagName(elementB)
     /\ NonSkippableBetween(elementA, elementB) = {})
    => dist = Returned(1)

\* C4: two siblings with different tags and k non-skippable
\* siblings between them are at distance exactly 2 + k.
C4_DifferentTagSiblingsTwoPlusK ==
    (/\ Called
     /\ Siblings(elementA, elementB)
     /\ tagName(elementA) # tagName(elementB))
    => dist = Returned(2 + Cardinality(NonSkippableBetween(elementA, elementB)))

\* C5: for a node and its direct parent, in either argument order, distance
\* returns a number made only of tag costs and the different-depth cost of
\* the child's level, with no stride contribution, whatever siblings the two
\* nodes have.
C5_ParentChildNoStride ==
    (/\ Called
     /\ (parentNode[elementA] = elementB \/ parentNode[elementB] = elementA))
    => /\ ~dist.threw
       /\ dist.cost \in {DIFFERENT_DEPTH_COST,
                         SAME_TAG_COST + DIFFERENT_DEPTH_COST,
                         DIFFERENT_TAG_COST + DIFFERENT_DEPTH_COST}

\* C6: distance(x, x) is 0 for every node x, and whenever distance returns a
\* number for two distinct nodes that number is at least 1.
C6_ZeroIffSame ==
    Called =>
        /\ elementA = elementB => dist = Returned(0)
        /\ (elementA # elementB /\ ~dist.threw) => dist.cost >= 1

\* C6 witness: a call on two distinct nodes that returns the smallest
\* distance two distinct nodes can have.
C6_Witness ==
    /\ pc = "returned"
    /\ elementA # elementB
    /\ dist.cost = 2

-----------------------------------------------------------------------------
(* Properties of clusters(), checked under Spec and SpecScenario *)

Terminal == pc \in {"done", "threw"}

Range(s) == {s[i] : i \in 1..Len(s)}

RECURSIVE Concat(_)
Concat(seqs) == IF seqs = <<>> THEN <<>> ELSE seqs[1] \o Concat(Tail(seqs))

\* Every stored entry of the matrix is at least the threshold.
NothingCloserThan(t) ==
    \A i \in 1..Len(matrix) : \A j \in 1..Len(matrix[i].row) :
        ~LessThan(matrix[i].row[j].distance, t)

\* C2: for every duplicate-free sequence of nodes of one tree, in
\* any order and with ancestors and descendants among them, and every
\* threshold, clusters returns a partition of the input: every input node is
\* in exactly one returned cluster and no other node appears.
C2_Partition ==
    Terminal =>
        /\ pc = "done"
        /\ Len(Concat(result)) = Len(elements)
        /\ Range(Concat(result)) = Range(elements)

\* C7: for every input sequence, clusters(nodes, Infinity)
\* returns exactly one cluster, and it contains all the input nodes.
C7_InfinityOneCluster ==
    (Terminal /\ tooFar = Infinity) =>
        /\ pc = "done"
        /\ Len(result) = 1
        /\ Len(result[1]) = Len(elements)
        /\ Range(result[1]) = Range(elements)

\* A threshold not above the distance of any two distinct input nodes.
NoPairBelow(t) ==
    /\ ~t.inf
    /\ \A i \in 1..Len(elements) : \A j \in 1..Len(elements) :
          LET d == distance(elements[i], elements[j])
          IN  (i # j /\ ~d.threw) => t.n <= d.cost

\* C8: with threshold 0, or any threshold not above the smallest
\* distance between two distinct input nodes, clusters returns n singleton
\* clusters, the i-th holding the i-th input node.
C8_NoMergeSingletons ==
    (Terminal /\ (tooFar = Finite(0) \/ NoPairBelow(tooFar))) =>
        /\ pc = "done"
        /\ result = [i \in 1..Len(elements) |-> <<elements[i]>>]

\* C9: in the scenario, clusters([p1, p2, p3, span], 2) returns
\* two clusters: one holding p1, p2 and p3 and one holding only span.
C9_ScenarioTwoClustersAtTwo ==
    (Terminal /\ tooFar = Finite(2)) =>
        /\ pc = "done"
        /\ Len(result) = 2
        /\ {Range(result[i]) : i \in 1..Len(result)} = {Paragraphs, {SpanNode}}

\* C10: the driver merges only a closest pair whose distance is strictly
\* below tooFar, and when clusters returns either at most one cluster is live
\* or every stored distance is at least tooFar.
C10_ExclusiveThreshold ==
    /\ pc = "merge" => (~tooFar.inf => closest.distance < tooFar.n)
    /\ pc = "done" => (numClusters <= 1 \/ NothingCloserThan(tooFar))

\* C10 witness: clusters has returned with several clusters live because the
\* closest pair, after a merge, was at exactly tooFar.
C10_Witness ==
    /\ pc = "done"
    /\ numClusters > 1
    /\ numClusters < Len(elements)
    /\ ~tooFar.inf
    /\ closest.distance = tooFar.n

-----------------------------------------------------------------------------
(* Properties of the DistanceMatrix, checked under SpecMatrix *)

\* The live clusters: the keys of the rows.
Keys(m) == {m[i].key : i \in 1..Len(m)}

\* The stored entries: <<row key, inner key, distance>>.
Entries(m) ==
    UNION {{<<m[i].key, m[i].row[j].key, m[i].row[j].distance>> : j \in 1..Len(m[i].row)} :
              i \in 1..Len(m)}

\* C11: each merge(A, B) of two distinct live clusters lowers numClusters by
\* exactly 1, removes A and B as row keys and as inner keys, installs exactly
\* one new cluster, and leaves every entry between two other live clusters
\* as it was.
C11_MergeStep ==
    [][pc' = "merged" =>
          LET new == Len(arena')
              A == arena'[new].a
              B == arena'[new].b
          IN  /\ {A, B} \subseteq Keys(matrix) /\ A # B
              /\ numClusters' = numClusters - 1
              /\ Len(matrix') = Len(matrix) - 1
              /\ new = Len(arena) + 1
              /\ Keys(matrix') = (Keys(matrix) \ {A, B}) \cup {new}
              /\ \A e \in Entries(matrix') : e[2] \notin {A, B, new}
              /\ {e \in Entries(matrix') : e[1] # new}
                    = {e \in Entries(matrix) : {e[1], e[2]} \cap {A, B} = {}}
              /\ {e[2] : e \in {f \in Entries(matrix') : f[1] = new}}
                    = Keys(matrix) \ {A, B}
    ]_vars

\* C11 witness: a merge has left three clusters live, two of them untouched
\* by it and with an entry between them.
C11_Witness ==
    /\ pc = "merged"
    /\ numClusters = 3
    /\ \E e \in Entries(matrix) : e[1] # Len(arena) /\ e[2] # Len(arena)

\* The places of the stored entries: <<row, place in the row>>.
EntryPlaces(m) ==
    UNION {{<<i, j>> : j \in 1..Len(m[i].row)} : i \in 1..Len(m)}

\* The places that store an entry for the unordered pair {X, Y}.
PlacesOfPair(m, X, Y) ==
    {p \in EntryPlaces(m) : {m[p[1]].key, m[p[1]].row[p[2]].key} = {X, Y}}

\* C12: after construction and after any sequence of merges of distinct live
\* clusters, the matrix stores exactly one entry for each unordered pair of
\* distinct live clusters and no other entry, so numClusters *
\* (numClusters - 1) / 2 entries in all, and numClusters is the number of
\* rows.
C12_LowerTriangular ==
    MatrixLive =>
        /\ numClusters = Len(matrix)
        /\ Cardinality(Keys(matrix)) = Len(matrix)
        /\ \A X \in Keys(matrix) : \A Y \in Keys(matrix) :
              Cardinality(PlacesOfPair(matrix, X, Y)) = (IF X = Y THEN 0 ELSE 1)
        /\ \A p \in EntryPlaces(matrix) : matrix[p[1]].row[p[2]].key \in Keys(matrix)
        /\ 2 * Cardinality(EntryPlaces(matrix)) = numClusters * (numClusters - 1)

\* C12 witness: two merges after the construction from four nodes.
C12_Witness ==
    /\ pc = "merged"
    /\ Len(elements) = 4
    /\ numClusters = 2
    /\ Cardinality(EntryPlaces(matrix)) = 1

\* C13: with at least two live clusters, closest() returns a stored pair of
\* two distinct live clusters whose distance is the least of all stored
\* distances, and leaves the matrix as it was.
C13_ClosestMinimum ==
    [][(MatrixLive /\ pc' \in {"closestReturned", "closestThrew"} /\ Len(matrix) >= 2) =>
          /\ pc' = "closestReturned"
          /\ <<closest'.a, closest'.b, closest'.distance>> \in Entries(matrix)
          /\ closest'.a # closest'.b
          /\ {closest'.a, closest'.b} \subseteq Keys(matrix)
          /\ \A e \in Entries(matrix) : closest'.distance <= e[3]
          /\ matrix' = matrix
          /\ numClusters' = numClusters
          /\ arena' = arena
    ]_vars

\* C13 witness: closest() has returned after a merge, from a matrix that
\* stores a larger distance too.
C13_Witness ==
    /\ pc = "closestReturned"
    /\ Len(arena) > Len(elements)
    /\ \E e \in Entries(matrix) : closest.distance < e[3]

\* C14: closest() on a matrix with fewer than two live clusters (built from
\* no node or one node, or merged down to one cluster) ends in an error and
\* returns no pair; the call changes neither the matrix nor numClusters.
C14_ClosestNeedsTwo ==
    [][(MatrixLive /\ pc' \in {"closestReturned", "closestThrew"} /\ Len(matrix) < 2) =>
          /\ pc' = "closestThrew"
          /\ closest' = NoClosest
          /\ matrix' = matrix
          /\ numClusters' = numClusters
          /\ arena' = arena
    ]_vars

\* C14 witness: closest() has thrown on a matrix merged down to one cluster.
C14_Witness ==
    /\ pc = "closestThrew"
    /\ Len(matrix) = 1
    /\ Len(arena) > Len(elements)

\* The input nodes merged into a cluster, one merge after the other.
RECURSIVE Members(_, _)
Members(ar, cluster) ==
    IF ar[cluster].leaf THEN {ar[cluster].el}
    ELSE Members(ar, ar[cluster].a) \cup Members(ar, ar[cluster].b)

\* C15: after construction and after any sequence of merges, the flattened
\* live clusters partition the input nodes: every input node is in exactly
\* one of them, and flattening a cluster yields exactly the nodes merged into
\* it, each once; clusters() returns these flattened clusters.
C15_LivePartition ==
    MatrixLive =>
        LET cs == clustersOf(matrix, arena)
        IN  /\ Len(cs) = Len(matrix)
            /\ \A i \in 1..Len(cs) :
                  /\ cs[i] # <<>>
                  /\ Range(cs[i]) = Members(arena, matrix[i].key)
                  /\ Cardinality(Range(cs[i])) = Len(cs[i])
            /\ \A el \in Range(elements) :
                  Cardinality({i \in 1..Len(cs) : el \in Range(cs[i])}) = 1
            /\ Range(Concat(cs)) = Range(elements)
            /\ pc = "clustersReturned" => result = cs

\* C15 witness: clusters() has returned several clusters, one of them made by
\* two merges.
C15_Witness ==
    /\ pc = "clustersReturned"
    /\ Len(result) >= 2
    /\ \E i \in 1..Len(result) : Len(result[i]) >= 3

\* The places in the input of the nodes merged into a cluster.
RECURSIVE LeafPlaces(_, _)
LeafPlaces(ar, cluster) ==
    IF ar[cluster].leaf THEN {cluster}
    ELSE LeafPlaces(ar, ar[cluster].a) \cup LeafPlaces(ar, ar[cluster].b)

\* The distance the constructor measured between the input nodes at two
\* places: distance(later, earlier).
ConstructedDistance(i, j) ==
    distance(elements[MaxOf({i, j})], elements[MinOf({i, j})]).cost

\* The distances measured between the nodes of two clusters.
LeafDistances(X, Y) ==
    {ConstructedDistance(x, y) : x \in LeafPlaces(arena, X), y \in LeafPlaces(arena, Y)}

\* C16: the distance stored for two live clusters X and Y is the least of the
\* distances measured at construction between a node of X and a node of Y
\* (single linkage).
C16_SingleLinkage ==
    MatrixLive =>
        \A e \in Entries(matrix) : e[3] = MinOf(LeafDistances(e[1], e[2]))

\* C16 witness: an entry between two merged clusters whose nodes are at
\* different distances from one another.
C16_Witness ==
    /\ MatrixLive
    /\ \E e \in Entries(matrix) :
          /\ ~arena[e[1]].leaf
          /\ ~arena[e[2]].leaf
          /\ Cardinality(LeafDistances(e[1], e[2])) > 1

-----------------------------------------------------------------------------
(* Properties of a whole run of clusters(), checked under Spec *)

-----------------------------------------------------------------------------
(* Properties of distance() on several trees, checked under SpecForest *)

\* Two nodes of one tree: some node contains both.
SameTree(a, b) == \E c \in Nodes : contains(c, a) /\ contains(c, b)

\* C18: distance(a, b) called on two nodes without a common ancestor ends in
\* an error: the call comes to an end, and it returns no number.
C18_NoCommonAncestorThrows ==
    (Called /\ ~SameTree(elementA, elementB)) => (pc = "threw" /\ dist.threw)

\* C18 witness: distance() has thrown for a node below the root of one tree
\* and a node below the root of another.
C18_Witness ==
    /\ pc = "threw"
    /\ ~SameTree(elementA, elementB)
    /\ parentNode[elementA] # NULL
    /\ parentNode[elementB] # NULL

-----------------------------------------------------------------------------
(* Termination of distance(), checked under SpecDistance *)

\* C19: for every pair of nodes of one tree, in either argument order,
\* distance(a, b) comes to an end and returns a non-negative number.
C19_ReturnsNonNegative ==
    Called => (pc = "returned" /\ ~dist.threw /\ dist.cost >= 0)

-----------------------------------------------------------------------------
(* Properties of InwardRhs.fact(), checked under SpecRhs *)

FactCalled == pc \in {"factReturned", "factThrew"}

\* The places of the calls that are the rightmost of their kind.
RightmostOfKind(calls) ==
    {i \in 1..Len(calls) : \A j \in (i + 1)..Len(calls) : calls[j].kind # calls[i].kind}

\* The subfacts the call at place i supplies when it is run: the keys of what
\* its callback returns that a call of its kind may set.
Supplies(calls, i) ==
    {key \in DOMAIN calls[i].raw :
        calls[i].kind = "props" => key \in {"type", "note", "score", "element"}}

\* The rightmost places, among the rightmost calls of each kind, that supply
\* a subfact.
Suppliers(calls, subfact) ==
    {i \in RightmostOfKind(calls) : subfact \in Supplies(calls, i)}

\* C20: in fact(), each subfact of the result comes from the rightmost call
\* of the chain that supplies it, a call shadowed by a later call of its own
\* kind supplying nothing: among the calls of one kind only the rightmost is
\* ever run, and a props() call with a later props() call is never run to
\* fill what the later one left out.
C20_RightmostWins ==
    FactCalled =>
        /\ ran \subseteq RightmostOfKind(rhs.calls)
        /\ \A i \in ran : \A j \in 1..Len(rhs.calls) :
              (rhs.calls[i].kind = "props" /\ rhs.calls[j].kind = "props") => j <= i
        /\ pc = "factReturned" =>
              /\ DOMAIN fact.subfacts =
                    {subfact \in DOMAIN SUBFACTS : Suppliers(rhs.calls, subfact) # {}}
              /\ \A subfact \in DOMAIN fact.subfacts :
                    LET i == MaxOf(Suppliers(rhs.calls, subfact))
                    IN  /\ i \in ran
                        /\ fact.subfacts[subfact] = rhs.calls[i].raw[subfact]

\* C20 witness: fact() has returned for a chain of a type() and two props()
\* calls: the score comes from the last call though the props() before it
\* returns one too, and the type comes from type() though the props() before
\* the last returns one, the last props() returning none.
C20_Witness ==
    /\ pc = "factReturned"
    /\ Len(rhs.calls) = 3
    /\ rhs.calls[1].kind = "type"
    /\ rhs.calls[2].kind = "props"
    /\ rhs.calls[3].kind = "props"
    /\ DOMAIN rhs.calls[2].raw = {"type", "score"}
    /\ DOMAIN rhs.calls[3].raw = {"score"}
    /\ fact.subfacts = [type |-> 1, score |-> 3]
    /\ ran = {1, 3}

-----------------------------------------------------------------------------
(* Properties of the InwardRhs builder methods, checked under SpecHeap *)

\* C21: every builder method (atMost, props, type, typeIn, note, score,
\* conserveScore) returns a new right-hand side, which shares its array of
\* calls with no other, and leaves the call list, the max and the type
\* constraint of its receiver, and of every other right-hand side, as they
\* were; what it returns is the receiver's calls, max and types with the one
\* change the method makes.
C21_BuildersLeaveReceiver ==
    /\ [](\A o1 \in 1..Len(heap.objects) : \A o2 \in 1..Len(heap.objects) :
             o1 # o2 => heap.objects[o1].calls # heap.objects[o2].calls)
    /\ [][heap'.receiver # 0 =>
             LET receiver == heap'.receiver
                 method == heap'.method
                 new == Len(heap'.objects)
                 before == callsOf(heap, receiver)
                 after == callsOf(heap', new)
             IN  /\ new = Len(heap.objects) + 1
                 /\ \A o \in 1..Len(heap.objects) :
                       /\ heap'.objects[o] = heap.objects[o]
                       /\ callsOf(heap', o) = callsOf(heap, o)
                       /\ heap'.objects[new].calls # heap.objects[o].calls
                 /\ IF method \in {"atMost", "typeIn"}
                    THEN after = before
                    ELSE /\ Len(after) = Len(before) + 1
                         /\ SubSeq(after, 1, Len(before)) = before
                         /\ Last(after).kind = method
                 /\ method # "atMost" => heap'.objects[new].max = heap.objects[receiver].max
                 /\ method # "typeIn" => heap'.objects[new].types = heap.objects[receiver].types
       ]_vars

\* C21 witness: one base right-hand side has been extended three times, by
\* type(), by note() and by atMost(), and is still empty and unconstrained.
C21_Witness ==
    /\ Len(heap.objects) = 4
    /\ callsOf(heap, 1) = <<>>
    /\ heap.objects[1].max = Infinity
    /\ Len(callsOf(heap, 2)) = 1 /\ callsOf(heap, 2)[1].kind = "type"
    /\ Len(callsOf(heap, 3)) = 1 /\ callsOf(heap, 3)[1].kind = "note"
    /\ callsOf(heap, 4) = <<>> /\ heap.objects[4].max = Finite(1)
    /\ heap.receiver = 1

-----------------------------------------------------------------------------
(* Properties of the loop of clusters(), checked under Spec and SpecFair *)

\* C22: in every run of clusters(), whatever the size of the input, the loop
\* calls closest() only when two or more clusters are live, and no step of
\* the loop ends in the error of closest(): from the test of the loop the run
\* goes on to merge a pair returned from a matrix of two or more clusters, or
\* to return.
C22_DriverNeverThrows ==
    [][pc = "loop" =>
          /\ pc' \in {"merge", "return"}
          /\ (pc' = "merge" \/ closest' # closest) =>
                (Len(matrix) >= 2 /\ numClusters >= 2)
          /\ (Len(matrix) < 2 \/ numClusters < 2) => (pc' = "return" /\ closest' = closest)
    ]_vars

\* C22 witness: a run on one node has returned without a call of closest().
C22_Witness ==
    /\ pc = "done"
    /\ Len(elements) = 1
    /\ closest = NoClosest
    /\ result = <<<<elements[1]>>>>

\* The merges made so far: the arrays made after the construction.
Merges == Len(arena) - Len(elements)

\* C23: once the matrix is built for n nodes the loop of clusters() comes to
\* an end and clusters() returns, for every threshold: each merge lowers
\* numClusters, which stands at n minus the merges made, and there are at
\* most n - 1 merges.
C23_LoopTerminates ==
    /\ [](pc \in {"loop", "merge", "return", "done"} =>
             /\ numClusters = Len(elements) - Merges
             /\ Merges >= 0
             /\ Len(elements) >= 1 => Merges <= Len(elements) - 1
             /\ Len(elements) = 0 => Merges = 0)
    /\ [][pc = "merge" => numClusters' < numClusters]_vars
    /\ (pc = "loop" ~> pc = "done")

\* C23 witness: a run on three nodes has returned after two merges.
C23_Witness ==
    /\ pc = "done"
    /\ Len(elements) = 3
    /\ Merges = 2
    /\ numClusters = 1

-----------------------------------------------------------------------------
(* Properties of the result of clusters(), checked under Spec *)

\* Two places of the input whose nodes the constructor measured closer than
\* the threshold.
Linked(i, j) == i # j /\ LessThan(ConstructedDistance(i, j), tooFar)

\* The pairs of places of the input, earlier place first, that are linked.
Links ==
    UNION {{<<i, j>> : j \in {k \in (i + 1)..Len(elements) : Linked(i, k)}} :
              i \in 1..Len(elements)}

\* The places that chains of links lead to from the places of S.
RECURSIVE Chained(_, _)
Chained(links, S) ==
    LET next == {j \in 1..Len(elements) :
                    j \in S \/ \E i \in S : <<i, j>> \in links \/ <<j, i>> \in links}
    IN  IF next = S THEN S ELSE Chained(links, {j : j \in next})

\* The places of the input whose nodes are in the cluster of the result that
\* holds the node at place i.
Together(i) ==
    {j \in 1..Len(elements) :
        \E c \in 1..Len(result) :
            elements[i] \in Range(result[c]) /\ elements[j] \in Range(result[c])}

\* C24: when clusters(nodes, tooFar) has returned, two input nodes are in the
\* same returned cluster exactly when a chain of input nodes leads from one to
\* the other in which each node is at a measured distance below tooFar from
\* the next: the result is the set of connected components of the threshold
\* graph.
C24_ThresholdComponents ==
    [](pc = "done" =>
          LET links == {p : p \in Links}
          IN  \A i \in 1..Len(elements) : Together(i) = Chained(links, {i}))

\* C24 witness: clusters() has returned three nodes as one cluster under a
\* finite threshold, two of them joined only through the third.
C24_Witness ==
    /\ pc = "done"
    /\ Len(elements) = 3
    /\ ~tooFar.inf
    /\ Len(result) = 1
    /\ \E i \in 1..3 : \E j \in 1..3 : i # j /\ ~Linked(i, j)

-----------------------------------------------------------------------------
(* Properties of the order of the matrix, checked under SpecMatrix *)

\* The keys of a row or of the matrix, in insertion order.
KeySeq(map) == [i \in 1..Len(map) |-> map[i].key]

\* C25: the matrix stays lower-triangular under every sequence of merges: the
\* row of each live cluster holds entries for exactly the live clusters
\* before it in insertion order, the cluster made by a merge is the last row,
\* and the constructor calls distance() with the later input node first and
\* the earlier one second: it throws exactly when such a call throws, and the
\* distance a row of an input node stores for an earlier input node is the
\* one from the later to the earlier.
C25_RowsHoldEarlierClusters ==
    /\ MatrixLive =>
          /\ \A i \in 1..Len(matrix) :
                /\ Len(matrix[i].row) = i - 1
                /\ Keys(matrix[i].row) = {matrix[k].key : k \in 1..(i - 1)}
          /\ \A i \in 1..Len(elements) : \A j \in 1..(i - 1) :
                /\ ~distance(elements[i], elements[j]).threw
                /\ (HasKey(matrix, i) /\ HasKey(matrix, j)) =>
                      /\ HasKey(EntryOf(matrix, i).row, j)
                      /\ EntryOf(EntryOf(matrix, i).row, j).distance
                            = distance(elements[i], elements[j]).cost
    /\ pc = "merged" =>
          /\ matrix[Len(matrix)].key = Len(arena)
          /\ ~arena[Len(arena)].leaf
    /\ pc = "threw" =>
          \E i \in 1..Len(elements) : \E j \in 1..(i - 1) :
              distance(elements[i], elements[j]).threw

\* C25 witness: a merge of the first two of four input nodes has left the
\* rows of the other two, and then the row of the merged cluster with an
\* entry for each of them.
C25_Witness ==
    /\ pc = "merged"
    /\ Len(elements) = 4
    /\ KeySeq(matrix) = <<3, 4, 5>>
    /\ arena[5].a = 1 /\ arena[5].b = 2
    /\ KeySeq(matrix[2].row) = <<3>>
    /\ KeySeq(matrix[3].row) = <<3, 4>>

-----------------------------------------------------------------------------
(* Properties of the order of the result, checked under Spec *)

\* The flattened clusters of the rows other than those of two clusters, in
\* the order of the rows.
OtherClusters(m, ar, clusterA, clusterB) ==
    clustersOf(SelectSeq(m, LAMBDA e : e.key # clusterA /\ e.key # clusterB), ar)

-----------------------------------------------------------------------------
(* Properties of numStrides(), checked under SpecStrides *)

\* The siblings of a node that are not whitespace.
StrideSiblings(n) ==
    IF n = UNDEFINED \/ parentNode[n] = NULL THEN {}
    ELSE {m \in Nodes : m # n /\ parentNode[m] = parentNode[n] /\ ~isWhitespace(m)}

\* Following next-sibling links from left leads to right (from a node to
\* itself by following none).
ReachedFrom(left, right) ==
    /\ left # UNDEFINED
    /\ right # UNDEFINED
    /\ \/ left = right
       \/ left < right /\ parentNode[left] # NULL /\ parentNode[left] = parentNode[right]

\* C26: numStrides(left, right), when right is reached by following
\* next-sibling links from left, returns the number of nodes strictly between
\* them that are not whitespace, and its walk back from right does not run;
\* in every other case, one argument being undefined included, it returns
\* the number of siblings after left plus the number of siblings before
\* right that are not whitespace.
C26_NumStrides ==
    pc = "strides" =>
        IF ReachedFrom(elementA, elementB)
        THEN /\ strides.num = Cardinality({m \in StrideSiblings(elementA) :
                                               elementA < m /\ m < elementB})
             /\ ~strides.backward
        ELSE strides.num = Cardinality({m \in StrideSiblings(elementA) : m > elementA})
                           + Cardinality({m \in StrideSiblings(elementB) : m < elementB})

\* C26 witness: numStrides() has counted the one node between two siblings
\* and has not walked back from the right one, which has another sibling
\* before the left one.
C26_Witness ==
    /\ pc = "strides"
    /\ ReachedFrom(elementA, elementB)
    /\ strides = [num |-> 1, backward |-> FALSE]
    /\ \E m \in StrideSiblings(elementA) : m < elementA

====
